---- MODULE Spec2Model ----
(***************************************************************************)
(* The two concurrency functions of src/src/main.rs:                       *)
(*   concurrent_sum(data, num_threads)   (lines 229-247)                   *)
(*   mutex_counter()                     (lines 249-267)                   *)
(* Each function is a small fork-join program: a calling thread that       *)
(* spawns workers, the workers, and the calling thread's joins.            *)
(* SpecSum is concurrent_sum, SpecCounter is mutex_counter.                *)
(***************************************************************************)
EXTENDS Integers, Sequences, FiniteSets

VARIABLES
    \* ---- concurrent_sum ----
    data,             \* the input slice, data: &[i32]
    num_threads,      \* num_threads: usize
    overflow_checks,  \* build profile: TRUE = overflow checks on (debug), FALSE = off (release)
    spc,              \* position of the calling thread in concurrent_sum
    chunk_size,       \* let chunk_size (line 230)
    spawned,          \* the loop variable i of line 234 = number of handles pushed
    wstate,           \* per worker: "unspawned" | "running" | "finished" | "panicked"
    wstart,           \* per worker: its local start (line 237)
    wend,             \* per worker: its local end (line 238)
    wsliced,          \* per worker: TRUE once it evaluated data_ref[start..end] (line 242)
    wresult,          \* per worker: the closure's return value
    joined,           \* number of handles joined by the iterator of line 246
    added,            \* number of partial results folded into total by .sum()
    item,             \* the value h.join().unwrap() produced, not yet added
    total,            \* the accumulator of .sum()
    sret,             \* the value concurrent_sum returned
    fault,            \* why the calling thread panicked, "none" otherwise
    \* ---- mutex_counter ----
    counter,          \* the i32 inside the Mutex
    lock,             \* the worker holding the Mutex, Free when none
    poisoned,         \* the Mutex's poison flag
    mpc,              \* position of the calling thread in mutex_counter
    mspawned,         \* number of handles pushed by the loop of line 253
    mjoined,          \* number of handles joined by the loop of line 261
    wpc,              \* per worker: its position in the closure of lines 255-258
    tmp,              \* per worker: the value read by *num += 1
    mret              \* the value mutex_counter returned

sumvars == <<data, num_threads, overflow_checks, spc, chunk_size, spawned, wstate,
             wstart, wend, wsliced, wresult, joined, added, item, total, sret, fault>>
ctrvars == <<counter, lock, poisoned, mpc, mspawned, mjoined, wpc, tmp, mret>>
vars == <<sumvars, ctrvars>>

(***************************************************************************)
(* Bounds of the model and constants of the program.                       *)
(***************************************************************************)
MaxLen == 4
MaxThreads == 7
I32Max == 2147483647
NumWorkers == 5

I32Min == -I32Max - 1
Vals == {-1, 2, I32Max}
Inputs == UNION {[1..n -> Vals] : n \in 0..MaxLen}
None == "none"
Free == 0

(***************************************************************************)
(* i32 addition.  With overflow checks the addition panics when the        *)
(* mathematical result leaves the i32 range; without them it wraps modulo  *)
(* 2^32.  Both are written without leaving the i32 range themselves.       *)
(***************************************************************************)
AddOverflows(a, b) ==
    \/ b > 0 /\ a > I32Max - b
    \/ b < 0 /\ a < I32Min - b

WrappingAdd(a, b) ==
    IF b > 0 /\ a > I32Max - b THEN (a - I32Max - 1) + (b - I32Max - 1)
    ELSE IF b < 0 /\ a < I32Min - b THEN (a + I32Max + 1) + (b + I32Max + 1)
    ELSE a + b

\* a + b on i32 under the build's overflow behaviour
AddI32(a, b, checks) ==
    IF AddOverflows(a, b) /\ checks
    THEN [ok |-> FALSE, val |-> 0]
    ELSE [ok |-> TRUE, val |-> WrappingAdd(a, b)]

\* s[from+1..to].iter().sum::<i32>() : a fold from 0, left to right
RECURSIVE IterSum(_, _, _, _, _)
IterSum(s, from, to, acc, checks) ==
    IF from >= to THEN [ok |-> TRUE, val |-> acc]
    ELSE LET r == AddI32(acc, s[from + 1], checks)
         IN  IF r.ok THEN IterSum(s, from + 1, to, r.val, checks) ELSE r

Min(a, b) == IF a <= b THEN a ELSE b

(***************************************************************************)
(* concurrent_sum                                                          *)
(***************************************************************************)
ChunkSizeFloor(n, w) == n \div w
\* (data.len() + num_threads - 1) / num_threads, for num_threads >= 1
ChunkSize(n, w) == (n + w - 1) \div w

WorkerEndNoMin(start, cs, n) == start + cs
\* (start + chunk_size).min(data_ref.len())
WorkerEnd(start, cs, n) == Min(start + cs, n)

JoinNoWait(w) == TRUE
\* h.join() returns once the thread of handle w has ended
JoinReady(w) == wstate[w] \in {"finished", "panicked"}

Workers == 0..(num_threads - 1)

InitCounterIdle ==
    /\ counter = 0
    /\ lock = Free
    /\ poisoned = FALSE
    /\ mpc = "idle"
    /\ mspawned = 0
    /\ mjoined = 0
    /\ wpc = [w \in 1..NumWorkers |-> "unspawned"]
    /\ tmp = [w \in 1..NumWorkers |-> 0]
    /\ mret = None

InitSum ==
    /\ data \in Inputs
    /\ num_threads \in 0..MaxThreads
    /\ overflow_checks \in BOOLEAN
    /\ spc = "start"
    /\ chunk_size = 0
    /\ spawned = 0
    /\ wstate = [w \in Workers |-> "unspawned"]
    /\ wstart = [w \in Workers |-> 0]
    /\ wend = [w \in Workers |-> 0]
    /\ wsliced = [w \in Workers |-> FALSE]
    /\ wresult = [w \in Workers |-> 0]
    /\ joined = 0
    /\ added = 0
    /\ item = 0
    /\ total = 0
    /\ sret = None
    /\ fault = None
    /\ InitCounterIdle

\* line 230.  usize arithmetic: with num_threads = 0 and an empty slice the
\* subtraction underflows (a panic with overflow checks, a wrap to usize::MAX
\* without, followed by the division by zero); with num_threads = 0 and a
\* non-empty slice the division by zero panics in every build.
ComputeChunkSize ==
    /\ spc = "start"
    /\ IF num_threads = 0
       THEN /\ spc' = "panicked"
            /\ fault' = IF Len(data) = 0 /\ overflow_checks
                        THEN "subtract_overflow" ELSE "divide_by_zero"
            /\ UNCHANGED chunk_size
       ELSE /\ chunk_size' = ChunkSize(Len(data), num_threads)
            /\ spc' = "spawn"
            /\ UNCHANGED fault
    /\ UNCHANGED <<data, num_threads, overflow_checks, spawned, wstate, wstart, wend,
                   wsliced, wresult, joined, added, item, total, sret, ctrvars>>

\* lines 234-236, 243-244: one iteration of the spawn loop
Spawn ==
    /\ spc = "spawn"
    /\ spawned < num_threads
    /\ wstate' = [wstate EXCEPT ![spawned] = "running"]
    /\ spawned' = spawned + 1
    /\ spc' = IF spawned + 1 = num_threads THEN "join" ELSE "spawn"
    /\ UNCHANGED <<data, num_threads, overflow_checks, chunk_size, wstart, wend, wsliced,
                   wresult, joined, added, item, total, sret, fault, ctrvars>>

\* lines 237-242: the closure of worker w
WorkerRun(w) ==
    /\ wstate[w] = "running"
    /\ LET start == w * chunk_size
           end   == WorkerEnd(start, chunk_size, Len(data))
       IN  /\ wstart' = [wstart EXCEPT ![w] = start]
           /\ wend' = [wend EXCEPT ![w] = end]
           /\ IF start >= Len(data)
              THEN /\ wresult' = [wresult EXCEPT ![w] = 0]
                   /\ wstate' = [wstate EXCEPT ![w] = "finished"]
                   /\ UNCHANGED wsliced
              ELSE /\ wsliced' = [wsliced EXCEPT ![w] = TRUE]
                   /\ IF start > end \/ end > Len(data)
                      THEN \* the slice index is out of range: the closure panics
                           /\ wstate' = [wstate EXCEPT ![w] = "panicked"]
                           /\ UNCHANGED wresult
                      ELSE LET r == IterSum(data, start, end, 0, overflow_checks)
                           IN  IF r.ok
                               THEN /\ wresult' = [wresult EXCEPT ![w] = r.val]
                                    /\ wstate' = [wstate EXCEPT ![w] = "finished"]
                               ELSE /\ wstate' = [wstate EXCEPT ![w] = "panicked"]
                                    /\ UNCHANGED wresult
    /\ UNCHANGED <<data, num_threads, overflow_checks, spc, chunk_size, spawned, joined,
                   added, item, total, sret, fault, ctrvars>>

\* line 246, h.join().unwrap(): the iterator takes the next handle, waits for
\* its thread and unwraps the thread's result
Join ==
    /\ spc = "join"
    /\ joined < num_threads
    /\ JoinReady(joined)
    /\ joined' = joined + 1
    /\ IF wstate[joined] = "finished"
       THEN /\ item' = wresult[joined]
            /\ spc' = "add"
            /\ UNCHANGED fault
       ELSE /\ spc' = "panicked"
            /\ fault' = "worker_panicked"
            /\ UNCHANGED item
    /\ UNCHANGED <<data, num_threads, overflow_checks, chunk_size, spawned, wstate, wstart,
                   wend, wsliced, wresult, added, total, sret, ctrvars>>

\* line 246, .sum(): the fold adds the joined value to the accumulator
Add ==
    /\ spc = "add"
    /\ LET r == AddI32(total, item, overflow_checks)
       IN  IF r.ok
           THEN /\ total' = r.val
                /\ added' = added + 1
                /\ spc' = "join"
                /\ UNCHANGED fault
           ELSE /\ spc' = "panicked"
                /\ fault' = "add_overflow"
                /\ UNCHANGED <<total, added>>
    /\ UNCHANGED <<data, num_threads, overflow_checks, chunk_size, spawned, wstate, wstart,
                   wend, wsliced, wresult, joined, item, sret, ctrvars>>

\* line 246-247: the iterator is exhausted, .sum() yields the accumulator
ReturnSum ==
    /\ spc = "join"
    /\ joined = num_threads
    /\ sret' = total
    /\ spc' = "returned"
    /\ UNCHANGED <<data, num_threads, overflow_checks, chunk_size, spawned, wstate, wstart,
                   wend, wsliced, wresult, joined, added, item, total, fault, ctrvars>>

NextSum ==
    \/ ComputeChunkSize
    \/ Spawn
    \/ \E w \in Workers : WorkerRun(w)
    \/ Join
    \/ Add
    \/ ReturnSum

SpecSum == InitSum /\ [][NextSum]_vars

(***************************************************************************)
(* mutex_counter                                                           *)
(***************************************************************************)
CounterWorkers == 1..NumWorkers

InitSumIdle ==
    /\ data = <<>>
    /\ num_threads = 0
    /\ overflow_checks = TRUE
    /\ spc = "idle"
    /\ chunk_size = 0
    /\ spawned = 0
    /\ wstate = [w \in Workers |-> "unspawned"]
    /\ wstart = [w \in Workers |-> 0]
    /\ wend = [w \in Workers |-> 0]
    /\ wsliced = [w \in Workers |-> FALSE]
    /\ wresult = [w \in Workers |-> 0]
    /\ joined = 0
    /\ added = 0
    /\ item = 0
    /\ total = 0
    /\ sret = None
    /\ fault = None

\* line 250: Arc::new(Mutex::new(0)), no handle yet
InitCounter ==
    /\ counter = 0
    /\ lock = Free
    /\ poisoned = FALSE
    /\ mpc = "spawn"
    /\ mspawned = 0
    /\ mjoined = 0
    /\ wpc = [w \in CounterWorkers |-> "unspawned"]
    /\ tmp = [w \in CounterWorkers |-> 0]
    /\ mret = None
    /\ InitSumIdle

UnwrapIgnoresErr(isErr) == FALSE
\* Result::unwrap panics exactly on Err (lines 256, 262, 265)
UnwrapPanics(isErr) == isErr

LockNoExclusion(w) == TRUE
\* Mutex::lock blocks until no thread holds the mutex
LockAvailable(w) == lock = Free

IncrementedTwice(v) == v + 2
\* *num += 1 stores the value read plus one
Incremented(v) == v + 1

GuardLeaked(w) == w
\* dropping the MutexGuard at the end of the closure unlocks the mutex
GuardDropped(w) == Free

\* the per-worker state of the component design, by position in the closure
WorkerPhase(w) ==
    CASE wpc[w] = "unspawned" -> "NotSpawned"
      [] wpc[w] = "start"     -> "Spawned"
      [] wpc[w] = "lock"      -> "AcquiringLock"
      [] wpc[w] = "read"      -> "Holding"
      [] wpc[w] = "write"     -> "Incrementing"
      [] wpc[w] = "unlock"    -> "Incrementing"
      [] wpc[w] = "exit"      -> "Released"
      [] wpc[w] = "done"      -> "Terminated"
      [] wpc[w] = "panicked"  -> "Panicked"

\* lines 253-259: one iteration of the spawn loop
CounterSpawn ==
    /\ mpc = "spawn"
    /\ mspawned < NumWorkers
    /\ wpc' = [wpc EXCEPT ![mspawned + 1] = "start"]
    /\ mspawned' = mspawned + 1
    /\ mpc' = IF mspawned + 1 = NumWorkers THEN "join" ELSE "spawn"
    /\ UNCHANGED <<counter, lock, poisoned, mjoined, tmp, mret, sumvars>>

\* line 255-256: the thread starts and calls c.lock()
WorkerStart(w) ==
    /\ wpc[w] = "start"
    /\ wpc' = [wpc EXCEPT ![w] = "lock"]
    /\ UNCHANGED <<counter, lock, poisoned, mpc, mspawned, mjoined, tmp, mret, sumvars>>

\* line 256: c.lock().unwrap().  On a poisoned mutex lock() returns Err
\* holding the guard; unwrap panics and the guard is dropped at once.
WorkerAcquire(w) ==
    /\ wpc[w] = "lock"
    /\ LockAvailable(w)
    /\ IF UnwrapPanics(poisoned)
       THEN /\ wpc' = [wpc EXCEPT ![w] = "panicked"]
            /\ UNCHANGED lock
       ELSE /\ wpc' = [wpc EXCEPT ![w] = "read"]
            /\ lock' = w
    /\ UNCHANGED <<counter, poisoned, mpc, mspawned, mjoined, tmp, mret, sumvars>>

\* line 257, *num += 1: the load
WorkerRead(w) ==
    /\ wpc[w] = "read"
    /\ tmp' = [tmp EXCEPT ![w] = counter]
    /\ wpc' = [wpc EXCEPT ![w] = "write"]
    /\ UNCHANGED <<counter, lock, poisoned, mpc, mspawned, mjoined, mret, sumvars>>

\* line 257, *num += 1: the store
WorkerWrite(w) ==
    /\ wpc[w] = "write"
    /\ counter' = Incremented(tmp[w])
    /\ wpc' = [wpc EXCEPT ![w] = "unlock"]
    /\ UNCHANGED <<lock, poisoned, mpc, mspawned, mjoined, tmp, mret, sumvars>>

\* line 258: the closure ends, the guard num is dropped
WorkerUnlock(w) ==
    /\ wpc[w] = "unlock"
    /\ lock' = GuardDropped(w)
    /\ wpc' = [wpc EXCEPT ![w] = "exit"]
    /\ UNCHANGED <<counter, poisoned, mpc, mspawned, mjoined, tmp, mret, sumvars>>

\* line 258: the thread ends
WorkerExit(w) ==
    /\ wpc[w] = "exit"
    /\ wpc' = [wpc EXCEPT ![w] = "done"]
    /\ UNCHANGED <<counter, lock, poisoned, mpc, mspawned, mjoined, tmp, mret, sumvars>>

\* lines 261-263: h.join().unwrap() for the next handle
CounterJoin ==
    /\ mpc = "join"
    /\ mjoined < NumWorkers
    /\ wpc[mjoined + 1] \in {"done", "panicked"}
    /\ IF UnwrapPanics(wpc[mjoined + 1] = "panicked")
       THEN /\ mpc' = "panicked"
            /\ UNCHANGED mjoined
       ELSE /\ mjoined' = mjoined + 1
            /\ mpc' = IF mjoined + 1 = NumWorkers THEN "read" ELSE "join"
    /\ UNCHANGED <<counter, lock, poisoned, mspawned, wpc, tmp, mret, sumvars>>

\* lines 265-266: *counter.lock().unwrap(), and the return
CounterRead ==
    /\ mpc = "read"
    /\ lock = Free
    /\ IF UnwrapPanics(poisoned)
       THEN /\ mpc' = "panicked"
            /\ UNCHANGED mret
       ELSE /\ mret' = counter
            /\ mpc' = "returned"
    /\ UNCHANGED <<counter, lock, poisoned, mspawned, mjoined, wpc, tmp, sumvars>>

WorkerStep(w) ==
    \/ WorkerStart(w)
    \/ WorkerAcquire(w)
    \/ WorkerRead(w)
    \/ WorkerWrite(w)
    \/ WorkerUnlock(w)
    \/ WorkerExit(w)

CallerStep ==
    \/ CounterSpawn
    \/ CounterJoin
    \/ CounterRead

NextCounter ==
    \/ CallerStep
    \/ \E w \in CounterWorkers : WorkerStep(w)

SpecCounter == InitCounter /\ [][NextCounter]_vars

\* Threads of a running process are scheduled fairly: a thread that can take
\* a step eventually takes one.
FairSpecCounter ==
    /\ SpecCounter
    /\ WF_vars(CallerStep)
    /\ \A w \in CounterWorkers : WF_vars(WorkerStep(w))

\* A worker ends abnormally inside the critical section (between taking the
\* guard at line 256 and dropping it at line 258): unwinding drops the guard,
\* which marks the mutex poisoned and unlocks it.
WorkerPanic(w) ==
    /\ wpc[w] \in {"read", "write", "unlock"}
    /\ wpc' = [wpc EXCEPT ![w] = "panicked"]
    /\ poisoned' = TRUE
    /\ lock' = Free
    /\ UNCHANGED <<counter, mpc, mspawned, mjoined, tmp, mret, sumvars>>

NextCounterFault ==
    \/ CallerStep
    \/ \E w \in CounterWorkers : WorkerStep(w)
    \/ \E w \in CounterWorkers : WorkerPanic(w)

SpecCounterFault == InitCounter /\ [][NextCounterFault]_vars

(***************************************************************************)
(* Properties of concurrent_sum (checked under SpecSum)                    *)
(***************************************************************************)
Abs(x) == IF x < 0 THEN -x ELSE x

\* the absolute values of s[1..k] add up to at most I32Max: no sum of any
\* part of s, in any order, can leave the i32 range
RECURSIVE AbsSumFits(_, _, _)
AbsSumFits(s, k, acc) ==
    IF k > Len(s) THEN TRUE
    ELSE /\ Abs(s[k]) <= I32Max - acc
         /\ AbsSumFits(s, k + 1, acc + Abs(s[k]))

SmallValues(s) == AbsSumFits(s, 1, 0)

\* the mathematical sum of s (used only where SmallValues(s) holds)
RECURSIVE MathSum(_)
MathSum(s) == IF s = <<>> THEN 0 ELSE s[1] + MathSum(Tail(s))

\* the left-to-right sum of s never leaves the i32 range
SequentialSumInRange(s) == IterSum(s, 0, Len(s), 0, TRUE).ok

AllWorkersRan == \A w \in Workers : wstate[w] \in {"finished", "panicked"}

\* C1: for every sequence (the empty one included) and every worker count
\* W >= 1 (also W > len), with values too small to overflow, no thread of
\* concurrent_sum panics and the value returned is exactly the sum of the
\* sequence, whatever the order in which the workers ran.
C1_SumIsExact ==
    (num_threads >= 1 /\ SmallValues(data)) =>
        /\ spc # "panicked"
        /\ \A w \in Workers : wstate[w] # "panicked"
        /\ spc = "returned" => sret = MathSum(data)

C1_Witness ==
    /\ spc = "returned"
    /\ SmallValues(data)
    /\ Len(data) = 3
    /\ num_threads = Len(data) + 4
    /\ data[1] # data[2]
    /\ sret = MathSum(data)
    /\ sret = 3

\* C3: a call with worker count 0 is reported as an input-validation failure:
\* it returns no integer and does not fail through the division by zero or
\* the unsigned underflow of the chunk-size computation.
C3_ZeroWorkersIsValidationFailure ==
    num_threads = 0 =>
        /\ spc # "returned"
        /\ fault \notin {"divide_by_zero", "subtract_overflow"}

\* C4 as stated: no partial result is added to the total before every one of
\* the W workers has been joined.
C4_FullBarrierBeforeFirstAdd ==
    added >= 1 => joined = num_threads

\* C4 as amended: a worker's partial result is added to the total only after
\* that worker has ended and been joined, and no handle is joined before all W
\* workers were spawned; joins and additions alternate in handle order.
C4_JoinedBeforeAdded ==
    /\ added <= joined
    /\ joined <= added + 1
    /\ \A w \in Workers : w < joined => wstate[w] \in {"finished", "panicked"}
    /\ joined >= 1 => spawned = num_threads
    /\ spc = "add" => /\ joined = added + 1
                      /\ wstate[joined - 1] = "finished"
                      /\ item = wresult[joined - 1]

C4_Witness ==
    /\ num_threads >= 3
    /\ added = 1
    /\ joined = 1
    /\ total # 0
    /\ wstate[num_threads - 1] = "running"

\* C5: for W >= 1 and a sequence whose left-to-right sum stays in the i32
\* range, no worker's partial sum and no step of the combining sum overflows,
\* so no worker and no call fails.
C5_NoOverflowFailure ==
    (num_threads >= 1 /\ SequentialSumInRange(data)) =>
        /\ spc # "panicked"
        /\ \A w \in Workers : wstate[w] # "panicked"

\* C9: chunk_size is ceil(N/W); the ranges the workers slice are contiguous,
\* pairwise disjoint and cover [0, N) exactly once; every sliced range has
\* start <= end <= N; a worker whose start i*chunk_size is >= N slices nothing
\* and contributes 0.
C9_ChunksPartitionInput ==
    (num_threads >= 1 /\ spc # "start") =>
        LET n == Len(data)
            ran(w) == wstate[w] \in {"finished", "panicked"}
        IN  /\ chunk_size * num_threads >= n
            /\ n > 0 => (chunk_size - 1) * num_threads < n
            /\ n = 0 => chunk_size = 0
            /\ \A w \in Workers : ran(w) =>
                  /\ wstart[w] = w * chunk_size
                  /\ wsliced[w] <=> w * chunk_size < n
                  /\ wsliced[w] => /\ wstart[w] <= wend[w]
                                   /\ wend[w] <= n
                                   /\ wend[w] = Min((w + 1) * chunk_size, n)
                  /\ ~wsliced[w] => wstate[w] = "finished" /\ wresult[w] = 0
            /\ \A w \in Workers :
                  (w >= 1 /\ ran(w) /\ ran(w - 1) /\ wsliced[w]) =>
                      wsliced[w - 1] /\ wstart[w] = wend[w - 1]
            /\ AllWorkersRan =>
                  \A x \in 0..(n - 1) :
                      Cardinality({w \in Workers :
                          wsliced[w] /\ wstart[w] <= x /\ x < wend[w]}) = 1

C9_Witness ==
    /\ spc = "returned"
    /\ Len(data) = 4
    /\ num_threads = 3
    /\ chunk_size = 2
    /\ wsliced[1] /\ wstart[1] = 2 /\ wend[1] = 4
    /\ ~wsliced[2] /\ wresult[2] = 0

(***************************************************************************)
(* Properties of mutex_counter                                             *)
(***************************************************************************)
InCriticalSection(w) == wpc[w] \in {"read", "write", "unlock"}

\* C2: whatever the interleaving of the 5 workers and the caller, no thread
\* panics and the value mutex_counter returns is 5.
C2_ReturnsFive ==
    /\ mpc # "panicked"
    /\ mpc = "returned" => mret = NumWorkers

C2_Witness ==
    /\ mpc = "returned"
    /\ mret = 5
    /\ tmp[1] = 4

\* C6: at most one worker holds the lock, a worker is inside its
\* read-modify-write only while it is the holder, and no other increment
\* comes between a worker's load and its store.
C6_MutualExclusion ==
    /\ Cardinality({w \in CounterWorkers : InCriticalSection(w)}) <= 1
    /\ \A w \in CounterWorkers :
          /\ InCriticalSection(w) => lock = w
          /\ wpc[w] = "write" => counter = tmp[w]
          /\ wpc[w] = "unlock" => counter = tmp[w] + 1
    /\ lock # Free => InCriticalSection(lock)

C6_Witness ==
    \E w, v \in CounterWorkers :
        /\ wpc[w] = "write" /\ lock = w /\ tmp[w] = 2
        /\ wpc[v] = "lock"

\* C7 (under fair scheduling): no state short of the return is a deadlock,
\* and eventually every worker has terminated, every join has completed and
\* the call has returned.
C7_Terminates ==
    /\ [](mpc = "returned" \/ ENABLED NextCounter)
    /\ <>(/\ mpc = "returned"
          /\ mjoined = NumWorkers
          /\ \A w \in CounterWorkers : wpc[w] = "done")

C7_Witness ==
    /\ mpc = "returned"
    /\ mjoined = NumWorkers
    /\ lock = Free
    /\ \A w \in CounterWorkers : wpc[w] = "done"

\* C8 (with a worker ending abnormally while it holds the lock): once a
\* worker has failed that way the call never returns an integer.
C8_PanicIsFatal ==
    (poisoned \/ \E w \in CounterWorkers : wpc[w] = "panicked") =>
        /\ mpc # "returned"
        /\ mret = None

C8_Witness ==
    /\ mpc = "panicked"
    /\ poisoned
    /\ counter >= 1
    /\ mret = None
    /\ \E w \in CounterWorkers : wpc[w] = "done"

PhaseOrder ==
    { <<"NotSpawned", "Spawned">>, <<"Spawned", "AcquiringLock">>,
      <<"AcquiringLock", "Holding">>, <<"Holding", "Incrementing">>,
      <<"Incrementing", "Released">>, <<"Released", "Terminated">> }

CounterMatchesIncrements ==
    /\ counter = Cardinality({w \in CounterWorkers : wpc[w] \in {"unlock", "exit", "done"}})
    /\ counter \in 0..NumWorkers

LifecycleStep ==
    /\ \A w \in CounterWorkers :
          WorkerPhase(w)' # WorkerPhase(w) => <<WorkerPhase(w), WorkerPhase(w)'>> \in PhaseOrder
    /\ counter' >= counter
    /\ counter' # counter =>
          /\ counter' = counter + 1
          /\ \E w \in CounterWorkers : wpc[w] = "write" /\ wpc'[w] = "unlock"

\* C10: every worker moves Spawned, AcquiringLock, Holding, Incrementing,
\* Released, Terminated in that order and increments once; the counter always
\* equals the number of workers that completed their increment, stays within
\* 0..5 and never decreases.
C10_WorkerLifecycle ==
    /\ []CounterMatchesIncrements
    /\ [][LifecycleStep]_vars

C10_Witness ==
    /\ counter = 2
    /\ \E w, v, u \in CounterWorkers :
          /\ wpc[w] = "write"
          /\ wpc[v] = "done"
          /\ wpc[u] = "exit"

====
